---- MODULE Spec2Model ----
(***************************************************************************)
(* PixPay backend (src/server.js): the transactions and pix_keys tables and *)
(* the request handlers that read and write them.  A handler is an async   *)
(* function:                                                               *)
(* it runs atomically between two awaits, and each await (a provider call  *)
(* or a pool.query) is a point where other requests' steps interleave.     *)
(* One action models one such segment.  Each pool.query is one SQL         *)
(* statement, executed atomically by the store.                            *)
(*                                                                         *)
(* Amounts are in centavos (the amount column holds two-decimal values).   *)
(* The handlers compute in IEEE doubles; the only place where the double   *)
(* result is compared without rounding is the balance check of send-pix,   *)
(* modelled by FloatBelow.  Everything reported goes through toFixed(2),   *)
(* which yields the exact two-decimal value.                               *)
(***************************************************************************)
EXTENDS Integers, Sequences, FiniteSets, Bags, TLC

\* ---- bounds --------------------------------------------------------------
MaxTx == 3                           \* rows in the transactions table
MaxKeys == 3                         \* rows ever inserted in the pix_keys table
MaxCharges   == MaxTx - 1            \* rows inserted by create-pix
MaxWithdraws == MaxTx - 1            \* rows inserted by send-pix
Slots == {1, 2}                      \* requests in flight at the same time

Users == {1, 2}                      \* accounts (req.user.userId)
Readers == {1}                       \* accounts that ask for balance, listing, send-pix, check-pix
Refs  == 1..MaxTx                    \* provider references (txid)
KeyIds == 1..MaxKeys                 \* ids of pix_keys rows (req.params.id)
Statuses == {"APROVADO", "CONCLUIDA", "ATIVA"}   \* provider status vocabulary
Outcomes == {"ok", "error", "throw"} \* response.ok, !response.ok, fetch throws

\* ---- program constants ---------------------------------------------------
TAXA_POLOPAG_POR_TRANSACAO == 20     \* R$ 0,20
NULL == -1                           \* SQL NULL / JS null

\* ---- request inputs ------------------------------------------------------
ChargeAmounts   == {NULL, -50, 0, 50}      \* valor of create-pix (absent, <= 0: rejected)
WithdrawAmounts == {NULL, -20, 0, 20, 30}  \* valor of send-pix   (absent, <= 0: rejected)

VARIABLES
    txs,        \* the transactions table, in insertion order
    nextRef,    \* next txid the provider issues
    inflight,   \* bag of the requests in flight: where each handler is suspended
    resp,       \* the response the last step sent (NoResp if it sent none)
    lastCharge, \* history: the row the last create-pix inserted and its owner's
                \* balance data just before, forgotten at any other write to
                \* that owner's rows
    pix_keys,   \* the pix_keys table: a set of rows (id, user_id)
    nextKey     \* next id the pix_keys table assigns

vars == <<txs, nextRef, inflight, resp, lastCharge, pix_keys, nextKey>>
txvars == <<txs, nextRef, lastCharge>>
keyvars == <<pix_keys, nextKey>>

\* ---- SQL aggregates ------------------------------------------------------
RECURSIVE SumCaseMut(_, _, _)
\* mutant of SumCase: the CASE does not test the status
SumCaseMut(rows, t, acc) ==
    IF rows = <<>> THEN acc
    ELSE LET r == Head(rows)
             add == IF r.type = t THEN r.amount ELSE 0
         IN  SumCaseMut(Tail(rows), t, IF acc = NULL THEN add ELSE acc + add)

RECURSIVE SumCase(_, _, _)
\* SUM(CASE WHEN type = t AND status = 'completed' THEN amount ELSE 0 END)
\* over a list of rows; NULL over no rows
SumCase(rows, t, acc) ==
    IF rows = <<>> THEN acc
    ELSE LET r == Head(rows)
             add == IF r.type = t /\ r.status = "completed" THEN r.amount ELSE 0
         IN  SumCase(Tail(rows), t, IF acc = NULL THEN add ELSE acc + add)

RECURSIVE CountWhere(_, _, _)
\* COUNT over the rows satisfying type/status filters ("*" matches any)
CountWhere(rows, t, s) ==
    IF rows = <<>> THEN 0
    ELSE LET r == Head(rows)
             hit == (t = "*" \/ r.type = t) /\ (s = "*" \/ r.status = s)
         IN  (IF hit THEN 1 ELSE 0) + CountWhere(Tail(rows), t, s)

WhereUser(rows, u) == SelectSeq(rows, LAMBDA r : r.user_id = u)

\* the aggregate query of /api/balance and /api/send-pix
SumQuery(rows, u) ==
    LET mine == WhereUser(rows, u)
    IN  [received      |-> SumCase(mine, "received", NULL),
         sent          |-> SumCase(mine, "sent", NULL),
         pending_count |-> CountWhere(mine, "*", "pending")]

\* SELECT COUNT(*) ... WHERE user_id = u AND type = 'received' AND status = 'completed'
CountQuery(rows, u) == CountWhere(WhereUser(rows, u), "received", "completed")

\* mutant of OrZero: parseFloat(x), without the "|| 0"
OrZeroMut(x) == x

\* parseFloat(x || 0), parseInt(x || 0)
OrZero(x) == IF x = NULL THEN 0 ELSE x

\* mutant of BalanceResult: the fees are reported but not deducted
BalanceResultMut(q, count) ==
    [balance             |-> OrZero(q.received) - OrZero(q.sent),
     totalReceived       |-> OrZero(q.received),
     totalSent           |-> OrZero(q.sent),
     pendingTransactions |-> OrZero(q.pending_count),
     taxaPoloPag         |-> count * TAXA_POLOPAG_POR_TRANSACAO]

\* balanceData of /api/balance from the values the two queries returned
BalanceResult(q, count) ==
    LET received   == OrZero(q.received)
        sent       == OrZero(q.sent)
        totalTaxas == count * TAXA_POLOPAG_POR_TRANSACAO
    IN  [balance             |-> received - sent - totalTaxas,
         totalReceived       |-> received,
         totalSent           |-> sent,
         pendingTransactions |-> OrZero(q.pending_count),
         taxaPoloPag         |-> totalTaxas]

\* both queries of /api/balance evaluated on one table state
BalanceData(rows, u) == BalanceResult(SumQuery(rows, u), CountQuery(rows, u))


\* ---- double arithmetic of the balance check ------------------------------
\* <<received, sent, count>> (centavos, centavos, rows) for which the double
\* parseFloat(received) - parseFloat(sent) - count * 0.20 is smaller than the
\* double of the exact decimal difference, for every combination that up to
\* five rows with charges of 0.10 or 0.50 and withdrawals of 0.20 or 0.30 can
\* form (e.g. 1.0 - 0.3 - 2 * 0.2 = 0.29999999999999993 < 0.3).
FloatBelow ==
    { <<50, 20, 1>>, <<60, 0, 2>>, <<70, 0, 3>>, <<100, 30, 2>>, <<100, 40, 2>>,
      <<100, 50, 2>>, <<110, 30, 3>>, <<110, 40, 3>>, <<120, 0, 4>>,
      <<120, 20, 4>>, <<120, 30, 4>>, <<150, 0, 3>>, <<150, 30, 3>>,
      <<150, 50, 3>>, <<150, 60, 3>>, <<200, 30, 4>> }

\* saldoDisponivel, as reported after toFixed(2)
SaldoDisponivel(received, sent, count) ==
    OrZero(received) - OrZero(sent) - count * TAXA_POLOPAG_POR_TRANSACAO

\* mutant of Insufficient: the amount is compared with received - sent
InsufficientMut(received, sent, count, valor) ==
    OrZero(received) - OrZero(sent) < valor

\* saldoDisponivel < parseFloat(valor), on the unrounded doubles
Insufficient(received, sent, count, valor) ==
    LET saldo == SaldoDisponivel(received, sent, count)
    IN  \/ saldo < valor
        \/ saldo = valor /\ <<OrZero(received), OrZero(sent), count>> \in FloatBelow

\* ---- rows ----------------------------------------------------------------
\* mutant of ChargeRow: the charge is inserted as completed
ChargeRowMut(id, u, valor, txid) ==
    [id |-> id, user_id |-> u, type |-> "received", amount |-> valor,
     transaction_id |-> txid, status |-> "completed"]

\* the row create-pix inserts
ChargeRow(id, u, valor, txid) ==
    [id |-> id, user_id |-> u, type |-> "received", amount |-> valor,
     transaction_id |-> txid, status |-> "pending"]

\* mutant of WithdrawRow: the withdrawal is inserted as pending
WithdrawRowMut(id, u, valor) ==
    [id |-> id, user_id |-> u, type |-> "sent", amount |-> valor,
     transaction_id |-> NULL, status |-> "pending"]

\* the row send-pix inserts (transaction_id is not in the column list)
WithdrawRow(id, u, valor) ==
    [id |-> id, user_id |-> u, type |-> "sent", amount |-> valor,
     transaction_id |-> NULL, status |-> "completed"]

\* mutant of IsPaid: an active charge counts as paid
IsPaidMut(s) == s = "APROVADO" \/ s = "CONCLUIDA" \/ s = "ATIVA"

\* statusData.status === 'APROVADO' || statusData.status === 'CONCLUIDA'
IsPaid(s) == s = "APROVADO" \/ s = "CONCLUIDA"

\* mutant of UpdateMatches: the UPDATE has no WHERE clause
UpdateMatchesMut(r, txid) == TRUE

\* WHERE clause of the UPDATE of check-pix
UpdateMatches(r, txid) == r.transaction_id = txid

\* mutant of UpdateCompleted: the UPDATE also stores the amount net of the fee
UpdateCompletedNetMut(rows, txid) ==
    [i \in DOMAIN rows |->
        IF UpdateMatches(rows[i], txid)
        THEN [rows[i] EXCEPT !.status = "completed",
                             !.amount = @ - TAXA_POLOPAG_POR_TRANSACAO]
        ELSE rows[i]]

\* mutant of UpdateCompleted: the UPDATE flips the status
UpdateCompletedMut(rows, txid) ==
    [i \in DOMAIN rows |->
        IF UpdateMatches(rows[i], txid)
        THEN [rows[i] EXCEPT !.status =
                 IF @ = "pending" THEN "completed" ELSE "pending"]
        ELSE rows[i]]

\* UPDATE transactions SET status = 'completed' WHERE transaction_id = txid
UpdateCompleted(rows, txid) ==
    [i \in DOMAIN rows |->
        IF UpdateMatches(rows[i], txid)
        THEN [rows[i] EXCEPT !.status = "completed"] ELSE rows[i]]

\* updateResult.rowCount
RowCount(rows, txid) ==
    Cardinality({i \in DOMAIN rows : UpdateMatches(rows[i], txid)})

\* mutant of ResponseOk: the answer is never checked
ResponseOkMut(o) == TRUE

\* response.ok
ResponseOk(o) == o = "ok"

\* mutant of InvalidValor: only "!valor" is tested
InvalidValorMut(v) == v = NULL \/ v = 0

\* !valor || valor <= 0 (an absent valor is NULL)
InvalidValor(v) == (v = NULL \/ v = 0) \/ v <= 0

RECURSIVE Reverse(_)
Reverse(s) == IF s = <<>> THEN <<>> ELSE Append(Reverse(Tail(s)), Head(s))

\* mutant of ListQuery: no ORDER BY, the rows come in insertion order
ListQueryMut(rows, u) == WhereUser(rows, u)

\* SELECT * FROM transactions WHERE user_id = u ORDER BY created_at DESC
ListQuery(rows, u) == Reverse(WhereUser(rows, u))

\* ---- requests in flight --------------------------------------------------
NoResp == [op |-> "none", user |-> 0, http |-> 0, body |-> [error |-> ""]]
NoCharge == [id |-> 0]

\* a suspended handler: the route, the await it is at, and its local variables
Req == [op |-> "none", pc |-> "none", user |-> 0, valor |-> 0, txid |-> 0,
        status |-> "", received |-> 0, sent |-> 0, pending |-> 0, count |-> 0,
        key |-> 0]

Suspended == BagToSet(inflight)
Suspend(r)   == inflight (+) SetToBag({r})
Resume(r)    == inflight (-) SetToBag({r})
Move(r, r2)  == (inflight (-) SetToBag({r})) (+) SetToBag({r2})

CanStart == BagCardinality(inflight) < Cardinality(Slots)

\* A request that is answered in its first segment (a validation error, a provider
\* failure, a status that is not paid, the single SELECT of the listing) neither
\* waits for nor changes anything a request in flight sees; the table states it
\* can meet are those it meets when no request is in flight, and it is taken there.
CanAnswer == inflight = EmptyBag

InFlight(op) ==
    BagCardinality([r \in {x \in Suspended : x.op = op} |-> inflight[r]])

\* room for one more row of the given type, counting the requests that will insert
InsertRoom(op, type) ==
    /\ Len(txs) + InFlight("create") + InFlight("send") < MaxTx
    /\ CountWhere(txs, type, "*") + InFlight(op)
           < (IF type = "received" THEN MaxCharges ELSE MaxWithdraws)

\* a response: the route and the caller it answers, the status code and the body
Response(op, u, http, body) == [op |-> op, user |-> u, http |-> http, body |-> body]

Init ==
    /\ txs = <<>>
    /\ nextRef = 1
    /\ inflight = EmptyBag
    /\ resp = NoResp
    /\ lastCharge = NoCharge
    /\ pix_keys = {}
    /\ nextKey = 1

\* ---- POST /api/create-pix ------------------------------------------------
\* validation, the provider call and its answer (o): up to the INSERT
CreatePix(u, v, o) ==
    /\ IF InvalidValor(v)
       THEN /\ CanAnswer
            /\ resp' = Response("create", u, 400, [error |-> "Valor invalido"])
            /\ UNCHANGED <<inflight, nextRef>>
       ELSE /\ IF o = "throw"
               THEN /\ CanAnswer
                    /\ resp' = Response("create", u, 500, [error |-> "Erro interno do servidor"])
                    /\ UNCHANGED <<inflight, nextRef>>
               ELSE IF ~ResponseOk(o)
               THEN /\ CanAnswer
                    /\ resp' = Response("create", u, 502, [error |-> "Erro ao criar cobranca PIX"])
                    /\ UNCHANGED <<inflight, nextRef>>
               ELSE /\ CanStart /\ InsertRoom("create", "received")
                    /\ inflight' = Suspend([Req EXCEPT !.op = "create", !.pc = "insert",
                                        !.user = u, !.valor = v,
                                        !.txid = IF o = "ok" THEN nextRef ELSE NULL])
                    /\ nextRef' = IF o = "ok" THEN nextRef + 1 ELSE nextRef
                    /\ resp' = NoResp
    /\ UNCHANGED <<txs, lastCharge>>
    /\ UNCHANGED keyvars

\* the INSERT and the success response
CreateInsert(r) ==
    /\ r.op = "create" /\ r.pc = "insert"
    /\ txs' = Append(txs, ChargeRow(Len(txs) + 1, r.user, r.valor, r.txid))
    /\ lastCharge' = [id |-> Len(txs) + 1, pre |-> BalanceData(txs, r.user)]
    /\ resp' = Response("create", r.user, 200, [txid |-> r.txid])
    /\ inflight' = Resume(r)
    /\ UNCHANGED nextRef
    /\ UNCHANGED keyvars

\* ---- GET /api/check-pix/:txid --------------------------------------------
\* the provider call and its answer (o, with status s): up to the UPDATE.
\* The caller u (req.user.userId) is whoever holds a valid token.
CheckPix(u, t, o, s) ==
    /\ IF o = "throw"
       THEN /\ CanAnswer
            /\ resp' = Response("check", u, 500, [error |-> "Erro interno do servidor"])
            /\ UNCHANGED inflight
       ELSE IF ~ResponseOk(o)
       THEN /\ CanAnswer
            /\ resp' = Response("check", u, 502, [error |-> "Erro ao verificar pagamento"])
            /\ UNCHANGED inflight
       ELSE IF IsPaid(s)
       THEN /\ CanStart
            /\ inflight' = Suspend([Req EXCEPT !.op = "check", !.pc = "update",
                                        !.user = u, !.txid = t, !.status = s])
            /\ resp' = NoResp
       ELSE /\ CanAnswer
            /\ resp' = Response("check", u, 200,
                                [txid |-> t, status |-> s, isPaid |-> IsPaid(s), rowCount |-> 0])
            /\ UNCHANGED inflight
    /\ UNCHANGED <<txs, nextRef, lastCharge>>
    /\ UNCHANGED keyvars

\* the UPDATE and the success response
CheckUpdate(r) ==
    /\ r.op = "check" /\ r.pc = "update"
    /\ txs' = UpdateCompleted(txs, r.txid)
    /\ lastCharge' =
          IF /\ lastCharge.id # 0
             /\ \E i \in DOMAIN txs : /\ i # lastCharge.id
                                      /\ txs'[i] # txs[i]
                                      /\ txs[i].user_id = txs[lastCharge.id].user_id
          THEN NoCharge ELSE lastCharge
    /\ resp' = Response("check", r.user, 200,
                        [txid |-> r.txid, status |-> r.status, isPaid |-> IsPaid(r.status),
                         rowCount |-> RowCount(txs, r.txid)])
    /\ inflight' = Resume(r)
    /\ UNCHANGED nextRef
    /\ UNCHANGED keyvars

\* ---- GET /api/transactions -----------------------------------------------
Transactions(u) ==
    /\ CanAnswer
    /\ resp' = Response("list", u, 200, [rows |-> ListQuery(txs, u)])
    /\ UNCHANGED <<txs, nextRef, inflight, lastCharge>>
    /\ UNCHANGED keyvars

\* ---- GET /api/balance ----------------------------------------------------
\* the aggregate query
BalanceSum(u) ==
    /\ CanStart
    /\ LET q == SumQuery(txs, u)
       IN  inflight' = Suspend([Req EXCEPT !.op = "balance", !.pc = "count", !.user = u,
                                   !.received = q.received, !.sent = q.sent,
                                   !.pending = q.pending_count])
    /\ resp' = NoResp
    /\ UNCHANGED <<txs, nextRef, lastCharge>>
    /\ UNCHANGED keyvars

\* the count query and the response
BalanceCount(r) ==
    /\ r.op = "balance" /\ r.pc = "count"
    /\ LET q == [received |-> r.received, sent |-> r.sent, pending_count |-> r.pending]
       IN  resp' = Response("balance", r.user, 200, BalanceResult(q, CountQuery(txs, r.user)))
    /\ inflight' = Resume(r)
    /\ UNCHANGED <<txs, nextRef, lastCharge>>
    /\ UNCHANGED keyvars

\* ---- POST /api/send-pix --------------------------------------------------
\* validation and the aggregate query
SendSum(u, v, hasKey) ==
    /\ IF InvalidValor(v)
       THEN /\ CanAnswer
            /\ resp' = Response("send", u, 400, [error |-> "Valor invalido"])
            /\ UNCHANGED inflight
       ELSE IF ~hasKey
       THEN /\ CanAnswer
            /\ resp' = Response("send", u, 400, [error |-> "Chave PIX nao fornecida"])
            /\ UNCHANGED inflight
       ELSE /\ CanStart /\ InsertRoom("send", "sent")
            /\ LET q == SumQuery(txs, u)
               IN  inflight' = Suspend([Req EXCEPT !.op = "send", !.pc = "count",
                                           !.user = u, !.valor = v,
                                           !.received = q.received, !.sent = q.sent])
            /\ resp' = NoResp
    /\ UNCHANGED <<txs, nextRef, lastCharge>>
    /\ UNCHANGED keyvars

\* the count query and the balance check
SendCount(r) ==
    /\ r.op = "send" /\ r.pc = "count"
    /\ LET n == CountQuery(txs, r.user)
       IN  IF Insufficient(r.received, r.sent, n, r.valor)
           THEN /\ resp' = Response("send", r.user, 400,
                        [error |-> "Saldo insuficiente",
                         saldoDisponivel |-> SaldoDisponivel(r.received, r.sent, n),
                         valorSolicitado |-> r.valor])
                /\ inflight' = Resume(r)
           ELSE /\ inflight' = Move(r, [r EXCEPT !.pc = "insert", !.count = n])
                /\ resp' = NoResp
    /\ UNCHANGED <<txs, nextRef, lastCharge>>
    /\ UNCHANGED keyvars

\* the INSERT and the success response
SendInsert(r) ==
    /\ r.op = "send" /\ r.pc = "insert"
    /\ txs' = Append(txs, WithdrawRow(Len(txs) + 1, r.user, r.valor))
    /\ lastCharge' = IF lastCharge.id # 0 /\ txs[lastCharge.id].user_id = r.user
                     THEN NoCharge ELSE lastCharge
    /\ resp' = Response("send", r.user, 200,
                        [transactionId |-> Len(txs) + 1, valor |-> r.valor,
                         novoSaldo |-> SaldoDisponivel(r.received, r.sent, r.count) - r.valor])
    /\ inflight' = Resume(r)
    /\ UNCHANGED nextRef
    /\ UNCHANGED keyvars

\* ---- /api/pix-keys -------------------------------------------------------
\* mutant of KeyMatches: the statements filter by id only
KeyMatchesMut(k, id, u) == k.id = id

\* WHERE id = $1 AND user_id = $2
KeyMatches(k, id, u) == k.id = id /\ k.user_id = u

\* SELECT * FROM pix_keys WHERE id = $1 AND user_id = $2
SelectKey(keys, id, u) == {k \in keys : KeyMatches(k, id, u)}

\* DELETE FROM pix_keys WHERE id = $1 AND user_id = $2
DeleteKey(keys, id, u) == {k \in keys : ~KeyMatches(k, id, u)}

RECURSIVE KeysDesc(_)
\* rows in descending order of creation (ids are assigned in creation order)
KeysDesc(keys) ==
    IF keys = {} THEN <<>>
    ELSE LET newest == CHOOSE k \in keys : \A j \in keys : j.id <= k.id
         IN  <<newest>> \o KeysDesc(keys \ {newest})

\* SELECT * FROM pix_keys WHERE user_id = $1 ORDER BY created_at DESC
ListKeys(keys, u) == KeysDesc({k \in keys : k.user_id = u})

\* GET /api/pix-keys
PixKeys(u) ==
    /\ CanAnswer
    /\ resp' = Response("keys", u, 200, [rows |-> ListKeys(pix_keys, u)])
    /\ UNCHANGED <<inflight, keyvars, txvars>>

\* POST /api/pix-keys: validation, the INSERT and the response
AddPixKey(u, complete) ==
    /\ IF ~complete
       THEN /\ resp' = Response("addkey", u, 400, [error |-> "Campos obrigatorios ausentes"])
            /\ UNCHANGED keyvars
       ELSE /\ nextKey <= MaxKeys
            /\ pix_keys' = pix_keys \cup {[id |-> nextKey, user_id |-> u]}
            /\ nextKey' = nextKey + 1
            /\ resp' = Response("addkey", u, 201, [id |-> nextKey])
    /\ UNCHANGED <<inflight, txvars>>

\* DELETE /api/pix-keys/:id: the SELECT that checks the key is the caller's
DeletePixKey(u, id) ==
    /\ IF SelectKey(pix_keys, id, u) = {}
       THEN /\ resp' = Response("delkey", u, 404, [error |-> "Chave nao encontrada"])
            /\ UNCHANGED inflight
       ELSE /\ CanStart
            /\ inflight' = Suspend([Req EXCEPT !.op = "delkey", !.pc = "delete",
                                        !.user = u, !.key = id])
            /\ resp' = NoResp
    /\ UNCHANGED <<keyvars, txvars>>

\* the DELETE and the success response
DeletePixKeyDelete(r) ==
    /\ r.op = "delkey" /\ r.pc = "delete"
    /\ pix_keys' = DeleteKey(pix_keys, r.key, r.user)
    /\ resp' = Response("delkey", r.user, 200, [success |-> TRUE])
    /\ inflight' = Resume(r)
    /\ UNCHANGED <<nextKey, txvars>>

\* ---- specification -------------------------------------------------------
Next ==
    \/ \E u \in Users, v \in ChargeAmounts, o \in Outcomes : CreatePix(u, v, o)
    \/ \E r \in Suspended : CreateInsert(r)
    \/ \E u \in Readers, t \in Refs, o \in Outcomes, s \in Statuses : CheckPix(u, t, o, s)
    \/ \E r \in Suspended : CheckUpdate(r)
    \/ \E u \in Readers : Transactions(u)
    \/ \E u \in Readers : BalanceSum(u)
    \/ \E r \in Suspended : BalanceCount(r)
    \/ \E u \in Readers, v \in WithdrawAmounts, k \in BOOLEAN : SendSum(u, v, k)
    \/ \E r \in Suspended : SendCount(r)
    \/ \E r \in Suspended : SendInsert(r)

Spec == Init /\ [][Next]_vars

TypeOK ==
    /\ Len(txs) <= MaxTx
    /\ nextRef \in 1..(MaxTx + 1)
    /\ BagCardinality(inflight) <= Cardinality(Slots)
    /\ nextKey \in 1..(MaxKeys + 1)
    /\ \A k \in pix_keys : k.id \in 1..(nextKey - 1) /\ k.user_id \in Users

\* ---- serial execution ----------------------------------------------------
\* The requests that write to the transactions table, executed one at a time:
\* a request starts only when no request is in flight, and then runs its steps
\* to its response.  With no interleaving to explore, both accounts withdraw
\* and the amounts include a charge below the fee.
SerialChargeAmounts   == {10, 50}
SerialWithdrawAmounts == {20, 30}

SerialNext ==
    \/ \E u \in Users, v \in SerialChargeAmounts, o \in Outcomes :
           inflight = EmptyBag /\ CreatePix(u, v, o)
    \/ \E r \in Suspended : CreateInsert(r)
    \/ \E u \in Readers, t \in Refs, o \in Outcomes, s \in Statuses :
           inflight = EmptyBag /\ CheckPix(u, t, o, s)
    \/ \E r \in Suspended : CheckUpdate(r)
    \/ \E u \in Users, v \in SerialWithdrawAmounts, k \in BOOLEAN :
           inflight = EmptyBag /\ SendSum(u, v, k)
    \/ \E r \in Suspended : SendCount(r)
    \/ \E r \in Suspended : SendInsert(r)

SerialSpec == Init /\ [][SerialNext]_vars

\* ---- the pix_keys routes alone -------------------------------------------
KeysNext ==
    \/ \E u \in Users : PixKeys(u)
    \/ \E u \in Users, c \in BOOLEAN : AddPixKey(u, c)
    \/ \E u \in Users, id \in KeyIds : DeletePixKey(u, id)
    \/ \E r \in Suspended : DeletePixKeyDelete(r)

KeysSpec == Init /\ [][KeysNext]_vars

\* ---- claims ---------------------------------------------------------------
\* availableBalance of account u in the current table
Available(rows, u) == BalanceData(rows, u).balance

\* the received side of account u is still what request r read: whatever was
\* written to the account since r's reads was written by withdrawals
OnlyWithdrawalsSince(r) ==
    /\ OrZero(r.received) = OrZero(SumQuery(txs, r.user).received)
    /\ r.count = CountQuery(txs, r.user)

\* C1: concurrent withdrawals on one account never overdraw it: whenever a
\* withdrawal commits its row while only other withdrawals were interleaved with
\* it, an available balance that was not negative is still not negative.
C1_NoOverdraw ==
    [][\A r \in Suspended :
          (SendInsert(r) /\ OnlyWithdrawalsSince(r) /\ Available(txs, r.user) >= 0)
              => Available(txs', r.user) >= 0]_vars

\* C2: a withdrawal whose amount is greater than the available balance it
\* computed is answered with the insufficient-balance error, reporting the
\* available and the requested amount, and the request ends there: the table
\* is unchanged and no insert is left to run.
C2_InsufficientRejected ==
    [][\A r \in Suspended :
          (SendCount(r)
           /\ r.valor > OrZero(r.received) - OrZero(r.sent)
                            - CountQuery(txs, r.user) * TAXA_POLOPAG_POR_TRANSACAO)
              => /\ txs' = txs
                 /\ inflight' = Resume(r)
                 /\ resp'.op = "send" /\ resp'.http = 400
                 /\ resp'.body = [error |-> "Saldo insuficiente",
                                  saldoDisponivel |->
                                      OrZero(r.received) - OrZero(r.sent)
                                        - CountQuery(txs, r.user) * TAXA_POLOPAG_POR_TRANSACAO,
                                  valorSolicitado |-> r.valor]]_vars

\* C2 witness: a withdrawal was just refused for asking more than is available
C2_Witness ==
    /\ resp.op = "send" /\ resp.http = 400
    /\ resp.body.error = "Saldo insuficiente"
    /\ resp.body.valorSolicitado > resp.body.saldoDisponivel
    /\ Len(txs) > 0

\* C3: the status poll is idempotent: with a paid status the row ends completed,
\* and a poll that finds its row already completed updates no row.
C3_Idempotent ==
    [][\A r \in Suspended :
          CheckUpdate(r)
              => /\ \A i \in DOMAIN txs :
                        txs[i].transaction_id = r.txid => txs'[i].status = "completed"
                 /\ (\A i \in DOMAIN txs :
                        txs[i].transaction_id = r.txid => txs[i].status = "completed")
                        => resp'.body.rowCount = 0]_vars

\* C4: a poll answered with a status outside {APROVADO, CONCLUIDA} writes
\* nothing: the table is unchanged, no update is left to run, and the response
\* says the charge is not paid.
C4_NonPaidNoWrite ==
    [][\A u \in Users, t \in Refs, s \in Statuses \ {"APROVADO", "CONCLUIDA"} :
          CheckPix(u, t, "ok", s)
              => /\ txs' = txs
                 /\ inflight' = inflight
                 /\ resp'.http = 200 /\ resp'.body.isPaid = FALSE
                 /\ resp'.body.status = s]_vars

\* C4 witness: a poll was just answered "not paid" for a reference whose row is
\* pending, while another row is completed
C4_Witness ==
    /\ resp.op = "check" /\ resp.http = 200
    /\ resp.body.isPaid = FALSE
    /\ \E i \in DOMAIN txs : /\ txs[i].transaction_id = resp.body.txid
                             /\ txs[i].status = "pending"
    /\ \E i \in DOMAIN txs : txs[i].status = "completed"

\* C5: a completed transaction stays completed: no step removes it or sets its
\* status back to pending.
C5_StatusMonotonic ==
    [][\A i \in DOMAIN txs :
          txs[i].status = "completed"
              => i \in DOMAIN txs' /\ txs'[i].status = "completed"]_vars

\* C5 witness: a paid poll was just answered for a charge that is completed and
\* is followed by a later row
C5_Witness ==
    /\ resp.op = "check" /\ resp.http = 200 /\ resp.body.isPaid
    /\ \E i, j \in DOMAIN txs : /\ i < j
                                /\ txs[i].transaction_id = resp.body.txid
                                /\ txs[i].status = "completed"

\* the rows of account u with the given type and status, as a set of positions
RowsOf(rows, u, t, st) ==
    {i \in DOMAIN rows : rows[i].user_id = u /\ rows[i].type = t /\ rows[i].status = st}

RECURSIVE AmountOver(_, _)
\* the sum of the amounts of a set of rows, taken in no particular order
AmountOver(rows, S) ==
    IF S = {} THEN 0
    ELSE LET i == CHOOSE j \in S : TRUE
         IN  rows[i].amount + AmountOver(rows, S \ {i})

\* the derived balance of account u, by the formulas of the data model
Derived(rows, u) ==
    LET rc == RowsOf(rows, u, "received", "completed")
        sc == RowsOf(rows, u, "sent", "completed")
        fees == Cardinality(rc) * TAXA_POLOPAG_POR_TRANSACAO
    IN  [balance             |-> AmountOver(rows, rc) - AmountOver(rows, sc) - fees,
         totalReceived       |-> AmountOver(rows, rc),
         totalSent           |-> AmountOver(rows, sc),
         pendingTransactions |-> Cardinality({i \in DOMAIN rows :
                                    rows[i].user_id = u /\ rows[i].status = "pending"}),
         taxaPoloPag         |-> fees]

\* the rows in another order
Permuted(rows, f) == [i \in DOMAIN rows |-> rows[f[i]]]

\* request r's first query still describes the table its second query reads
SameState(r) ==
    [received |-> r.received, sent |-> r.sent, pending_count |-> r.pending]
        = SumQuery(txs, r.user)

\* C6: a balance request whose two queries read one table state reports the
\* derived balance of that state: completed received minus completed sent minus
\* the fee per completed received row, pending rows counted only in
\* pendingTransactions; and the same for every reordering of the rows.
C6_BalanceFormula ==
    [][\A r \in Suspended :
          (BalanceCount(r) /\ SameState(r))
              => /\ resp'.http = 200
                 /\ resp'.body = Derived(txs, r.user)
                 /\ \A f \in Permutations(DOMAIN txs) :
                        BalanceData(Permuted(txs, f), r.user) = resp'.body]_vars

\* C6 witness: a balance was just reported for an account with a completed
\* charge, a pending charge and a withdrawal
C6_Witness ==
    /\ resp.op = "balance" /\ resp.http = 200
    /\ RowsOf(txs, resp.user, "received", "completed") # {}
    /\ RowsOf(txs, resp.user, "received", "pending") # {}
    /\ RowsOf(txs, resp.user, "sent", "completed") # {}
    /\ resp.body = Derived(txs, resp.user)

\* C7: for an account without transactions the balance request succeeds and
\* every field it reports is zero.
C7_EmptyAccountZero ==
    [][\A r \in Suspended :
          (BalanceCount(r) /\ WhereUser(txs, r.user) = <<>>)
              => /\ resp'.http = 200
                 /\ resp'.body = [balance |-> 0, totalReceived |-> 0, totalSent |-> 0,
                                  pendingTransactions |-> 0, taxaPoloPag |-> 0]]_vars

\* C7 witness: a balance was just reported for an account without rows while
\* another account has rows
C7_Witness ==
    /\ resp.op = "balance" /\ resp.http = 200
    /\ WhereUser(txs, resp.user) = <<>>
    /\ txs # <<>>

\* C8: a create-pix whose provider call does not succeed is answered with an
\* error and writes nothing, now or later; and every charge row in the table
\* carries a reference the provider has issued.
C8_ProviderFailureNoWrite ==
    [][/\ \A u \in Users, v \in {a \in ChargeAmounts : a > 0}, o \in Outcomes \ {"ok"} :
             CreatePix(u, v, o)
                 => /\ txs' = txs
                    /\ inflight' = inflight
                    /\ resp'.op = "create" /\ resp'.http \in {500, 502}
       /\ \A i \in DOMAIN txs' :
             txs'[i].type = "received" => txs'[i].transaction_id \in 1..(nextRef' - 1)
       /\ \A r \in BagToSet(inflight') :
             r.op = "create" => r.txid \in 1..(nextRef' - 1)]_vars

\* C8 witness: a create-pix was just refused because the provider failed
C8_Witness ==
    /\ resp.op = "create" /\ resp.http \in {500, 502}
    /\ txs # <<>>

\* C9: the insert of a create-pix whose provider call succeeded appends exactly
\* one row (the caller's, received, pending, the requested amount, the reference
\* the provider returned, which no other row carries), changes no existing row
\* and leaves every balance field of the caller but pendingTransactions as it was.
C9_ChargeAppended ==
    [][\A r \in Suspended :
          CreateInsert(r)
              => /\ txs' = Append(txs, [id |-> Len(txs) + 1, user_id |-> r.user,
                                        type |-> "received", amount |-> r.valor,
                                        transaction_id |-> r.txid, status |-> "pending"])
                 /\ r.txid \in 1..(nextRef - 1)
                 /\ \A i \in DOMAIN txs : txs[i].transaction_id # r.txid
                 /\ Available(txs', r.user) = Available(txs, r.user)
                 /\ BalanceData(txs', r.user) =
                        [BalanceData(txs, r.user) EXCEPT !.pendingTransactions = @ + 1]
                 /\ resp'.http = 200 /\ resp'.body.txid = r.txid]_vars

\* C9 witness: a charge was just appended after other rows
C9_Witness ==
    /\ resp.op = "create" /\ resp.http = 200
    /\ Len(txs) >= 2
    /\ txs[Len(txs)].transaction_id = resp.body.txid
    /\ txs[Len(txs)].status = "pending"

\* the charge of lastCharge was completed with nothing else written to its
\* owner's rows since it was created
ChargeReconciled == lastCharge.id # 0 /\ txs[lastCharge.id].status = "completed"

\* C10 (as claimed): after create-pix of amount a and a paid poll of its
\* reference, the owner's balance data relative to the state before the charge
\* was created: totalReceived + a, taxaPoloPag + fee, balance + a - fee,
\* pendingTransactions - 1.
C10_ReflectedPendingDropped ==
    ChargeReconciled
        => LET row == txs[lastCharge.id]
               pre == lastCharge.pre
           IN  BalanceData(txs, row.user_id) =
                   [balance             |-> pre.balance + row.amount
                                                - TAXA_POLOPAG_POR_TRANSACAO,
                    totalReceived       |-> pre.totalReceived + row.amount,
                    totalSent           |-> pre.totalSent,
                    pendingTransactions |-> pre.pendingTransactions - 1,
                    taxaPoloPag         |-> pre.taxaPoloPag + TAXA_POLOPAG_POR_TRANSACAO]

\* C10 (amended): as above, but pendingTransactions is what it was before the
\* charge was created (one less than right after the creation).
C10_Reflected ==
    ChargeReconciled
        => LET row == txs[lastCharge.id]
               pre == lastCharge.pre
           IN  BalanceData(txs, row.user_id) =
                   [balance             |-> pre.balance + row.amount
                                                - TAXA_POLOPAG_POR_TRANSACAO,
                    totalReceived       |-> pre.totalReceived + row.amount,
                    totalSent           |-> pre.totalSent,
                    pendingTransactions |-> pre.pendingTransactions,
                    taxaPoloPag         |-> pre.taxaPoloPag + TAXA_POLOPAG_POR_TRANSACAO]

\* C10 witness: the poll of the last charge just completed it, on an account
\* that already had a balance
C10_Witness ==
    /\ ChargeReconciled
    /\ resp.op = "check" /\ resp.http = 200
    /\ resp.body.txid = txs[lastCharge.id].transaction_id
    /\ lastCharge.pre.totalReceived > 0

\* C11: the insert of a successful withdrawal appends exactly one row (the
\* caller's, sent, completed, the requested amount, no provider reference) and
\* the novoSaldo it returns is the available balance before the insert minus the
\* amount, which is the available balance of the account right after it.
C11_WithdrawAppended ==
    [][\A r \in Suspended :
          SendInsert(r)
              => /\ txs' = Append(txs, [id |-> Len(txs) + 1, user_id |-> r.user,
                                        type |-> "sent", amount |-> r.valor,
                                        transaction_id |-> NULL, status |-> "completed"])
                 /\ resp'.op = "send" /\ resp'.http = 200
                 /\ resp'.body.novoSaldo = Available(txs, r.user) - r.valor
                 /\ resp'.body.novoSaldo = Available(txs', r.user)]_vars

\* the tables the current one can have grown from: a prefix of its rows, with
\* any of the completed charges still pending (rows are only appended, and the
\* only change to a row is a charge's status going from pending to completed)
Earlier(rows) ==
    UNION { { [i \in 1..n |-> IF i \in P THEN [rows[i] EXCEPT !.status = "pending"]
                                        ELSE rows[i]] :
                P \in SUBSET {i \in 1..n : /\ rows[i].type = "received"
                                           /\ rows[i].status = "completed"} } :
            n \in 0..Len(rows) }

\* C12: every balance reported is the balance data of one single table state
\* that existed at some moment of the call: received, sent, fees and balance are
\* never taken from different states, whatever commits between the two queries.
C12_SingleLogState ==
    [][\A r \in Suspended :
          BalanceCount(r)
              => \E T \in Earlier(txs) : resp'.body = BalanceData(T, r.user)]_vars

\* no row of the table carries the provider reference t
NoLocalRow(t) == \A i \in DOMAIN txs : txs[i].transaction_id # t

\* C13: a poll of a reference that no row carries is answered 200 with the
\* status the provider reported and the matching isPaid, and leaves the table as
\* it is, whatever the status: both the step that receives the provider's answer
\* and, for a paid status, the step that runs the UPDATE.  (A step that neither
\* changes the table nor answers a poll has nothing to show for the first part.)
C13_UnknownReferenceNoWrite ==
    [][/\ \/ txs' = txs /\ resp'.op # "check"
          \/ \A u \in Users, t \in Refs, s \in Statuses :
                (NoLocalRow(t) /\ CheckPix(u, t, "ok", s))
                    => /\ txs' = txs
                       /\ resp'.op = "check"
                              => /\ resp'.http = 200
                                 /\ resp'.body.status = s
                                 /\ resp'.body.isPaid = (s \in {"APROVADO", "CONCLUIDA"})
       /\ \A r \in Suspended :
             (r.op = "check" /\ NoLocalRow(r.txid) /\ CheckUpdate(r))
                 => /\ txs' = txs
                    /\ resp'.op = "check" /\ resp'.http = 200
                    /\ resp'.body.status = r.status
                    /\ resp'.body.isPaid = TRUE
                    /\ resp'.body.rowCount = 0]_vars

\* C13 witness: a paid poll was just answered for a reference no row carries,
\* while the table holds a pending charge
C13_Witness ==
    /\ resp.op = "check" /\ resp.http = 200
    /\ resp.body.isPaid
    /\ NoLocalRow(resp.body.txid)
    /\ \E i \in DOMAIN txs : txs[i].status = "pending"

\* the amounts the validation refuses: absent, zero or negative
Refused(amounts) == {a \in amounts : a = NULL \/ a <= 0}

\* C14: a create-pix whose valor is absent or not positive, and a send-pix whose
\* valor is absent or not positive or whose key or key type is missing, are
\* answered 400 in their first step: the table is unchanged, no query and no
\* insert is left to run, and (create-pix) the provider has issued no reference.
C14_ValidationFirst ==
    [][/\ \A u \in Users, v \in Refused(ChargeAmounts) :
             CreatePix(u, v, "ok")
                 => /\ txs' = txs
                    /\ inflight' = inflight
                    /\ nextRef' = nextRef
                    /\ resp' = Response("create", u, 400, [error |-> "Valor invalido"])
       /\ \A u \in Readers, v \in Refused(WithdrawAmounts) :
             SendSum(u, v, TRUE)
                 => /\ txs' = txs
                    /\ inflight' = inflight
                    /\ resp' = Response("send", u, 400, [error |-> "Valor invalido"])
       /\ \A u \in Readers, v \in WithdrawAmounts \ Refused(WithdrawAmounts) :
             SendSum(u, v, FALSE)
                 => /\ txs' = txs
                    /\ inflight' = inflight
                    /\ resp' = Response("send", u, 400,
                                        [error |-> "Chave PIX nao fornecida"])]_vars

\* C14 witness: a send-pix was just refused for its valor on an account that has
\* a balance to withdraw from
C14_Witness ==
    /\ resp.op = "send" /\ resp.http = 400
    /\ resp.body.error = "Valor invalido"
    /\ Available(txs, resp.user) > 0

\* C15: the table is append-only.  No step removes a row or changes the id,
\* user_id, type, amount or transaction_id of an existing row; a status changes
\* only in the UPDATE step of check-pix; the table grows only by the insert of
\* a create-pix or of a send-pix, which appends one row and leaves the existing
\* rows as they are; no step of the balance, of the listing or of the balance
\* check of send-pix changes the table.
C15_AppendOnly ==
    [][/\ Len(txs') >= Len(txs)
       /\ \A i \in DOMAIN txs : [txs'[i] EXCEPT !.status = txs[i].status] = txs[i]
       /\ (\E i \in DOMAIN txs : txs'[i].status # txs[i].status)
              => \E r \in Suspended : CheckUpdate(r)
       /\ Len(txs') > Len(txs)
              => /\ Len(txs') = Len(txs) + 1
                 /\ SubSeq(txs', 1, Len(txs)) = txs
                 /\ \E r \in Suspended : CreateInsert(r) \/ SendInsert(r)
       /\ txs' # txs
              => ~ \/ \E u \in Users : Transactions(u) \/ BalanceSum(u)
                   \/ \E r \in Suspended : BalanceCount(r) \/ SendCount(r)]_vars

\* C15 witness: a withdrawal was just appended to a table that holds a charge
\* completed by a poll and a charge still pending
C15_Witness ==
    /\ resp.op = "send" /\ resp.http = 200
    /\ txs[Len(txs)].type = "sent"
    /\ \E i, j \in DOMAIN txs : /\ txs[i].type = "received" /\ txs[i].status = "completed"
                                /\ txs[j].type = "received" /\ txs[j].status = "pending"

\* C16: in serial execution, a withdrawal of exactly the available balance
\* passes the balance check and its insert leaves the available balance at 0;
\* and with an available balance of 0 every withdrawal is refused with the
\* insufficient-balance error.
C16_BoundaryAccepted ==
    [][\A r \in Suspended :
          /\ (SendCount(r) /\ r.valor = Available(txs, r.user))
                 => /\ resp' = NoResp
                    /\ inflight' = Move(r, [r EXCEPT !.pc = "insert",
                                                     !.count = CountQuery(txs, r.user)])
          /\ (SendInsert(r) /\ r.valor = Available(txs, r.user))
                 => Available(txs', r.user) = 0
          /\ (SendCount(r) /\ Available(txs, r.user) = 0)
                 => /\ resp'.op = "send" /\ resp'.http = 400
                    /\ resp'.body.error = "Saldo insuficiente"]_vars

\* C17: a delete of a key id that no row of the caller carries (no such row, or
\* a row of another account) is answered 404 and removes nothing; the DELETE of
\* a delete whose SELECT found the row removes exactly the caller's row with that id;
\* and whatever the interleaving, a row leaves the table only in the DELETE step
\* of a request of its owner for its id.
C17_DeleteOwnKeyOnly ==
    [][/\ \A u \in Users, id \in KeyIds :
             (DeletePixKey(u, id)
              /\ ~\E k \in pix_keys : k.id = id /\ k.user_id = u)
                 => /\ pix_keys' = pix_keys
                    /\ inflight' = inflight
                    /\ resp'.op = "delkey" /\ resp'.http = 404
       /\ \A r \in Suspended :
             DeletePixKeyDelete(r)
                 => /\ pix_keys' = pix_keys \ {[id |-> r.key, user_id |-> r.user]}
                    /\ resp'.op = "delkey" /\ resp'.http = 200
       /\ \A k \in pix_keys \ pix_keys' :
             \E r \in Suspended :
                 DeletePixKeyDelete(r) /\ r.user = k.user_id /\ r.key = k.id]_vars

\* C17 witness: a delete just removed the caller's key while a key of another
\* account and another key of the caller are still in the table
C17_Witness ==
    /\ resp.op = "delkey" /\ resp.http = 200
    /\ \E k \in pix_keys : k.user_id # resp.user
    /\ \E k \in pix_keys : k.user_id = resp.user
    /\ Cardinality(pix_keys) < nextKey - 1

\* C18: the listing of account u returns each row of u once and no row of
\* another account, newest first (ids are assigned in creation order), and
\* leaves the table as it is.
C18_ListingOwnNewestFirst ==
    [][\A u \in Users :
          Transactions(u)
              => LET rows == resp'.body.rows
                     mine == {i \in DOMAIN txs : txs[i].user_id = u}
                 IN  /\ txs' = txs
                     /\ resp'.op = "list" /\ resp'.http = 200
                     /\ {rows[i] : i \in DOMAIN rows} = {txs[i] : i \in mine}
                     /\ Len(rows) = Cardinality(mine)
                     /\ \A i, j \in DOMAIN rows : i < j => rows[i].id > rows[j].id]_vars

\* C18 witness: a listing just returned several rows while the table also
\* holds a row of another account
C18_Witness ==
    /\ resp.op = "list" /\ resp.http = 200
    /\ Len(resp.body.rows) >= 2
    /\ \E i \in DOMAIN txs : txs[i].user_id # resp.user

\* C19 (as claimed): in serial execution the available balance of every account
\* is never negative.
C19_NonNegative == \A u \in Users : Available(txs, u) >= 0

\* what the completed charges of account u that are smaller than the fee cost
\* the account: the fee minus the amount, for each of them
SmallChargeDeficit(rows, u) ==
    LET small == {i \in RowsOf(rows, u, "received", "completed") :
                     rows[i].amount < TAXA_POLOPAG_POR_TRANSACAO}
    IN  Cardinality(small) * TAXA_POLOPAG_POR_TRANSACAO - AmountOver(rows, small)

\* C19 (amended): in serial execution the available balance of an account is
\* never below minus what its completed charges smaller than the fee cost it
\* (so it is negative only through such charges), and the insert of a
\* withdrawal never leaves the available balance of its account negative.
C19_NonNegativeButSmallCharges ==
    [][/\ \A u \in Users : Available(txs', u) >= 0 - SmallChargeDeficit(txs', u)
       /\ \A r \in Suspended : SendInsert(r) => Available(txs', r.user) >= 0]_vars

\* C19 witness: a poll just completed a charge smaller than the fee on an
\* account that had withdrawn, and the account's available balance is negative
C19_Witness ==
    /\ resp.op = "check" /\ resp.http = 200 /\ resp.body.isPaid
    /\ \E u \in Users : /\ Available(txs, u) < 0
                        /\ RowsOf(txs, u, "sent", "completed") # {}
                        /\ \E i \in RowsOf(txs, u, "received", "completed") :
                               txs[i].transaction_id = resp.body.txid

\* C20: a step of a request of account a that writes to the table (the insert
\* of create-pix, the UPDATE of check-pix, the insert of send-pix) leaves the
\* rows of every other account, and so its balance data, as they were.
C20_OtherAccountsUntouched ==
    [][\A r \in Suspended :
          (CreateInsert(r) \/ CheckUpdate(r) \/ SendInsert(r))
              => \A b \in Users \ {r.user} :
                    /\ WhereUser(txs', b) = WhereUser(txs, b)
                    /\ BalanceData(txs', b) = BalanceData(txs, b)]_vars

\* C21: in every reachable state, every sent row is completed and carries no
\* provider reference, every pending row is a received row that carries one,
\* and so the pending count of an account's balance data is the number of its
\* charges that no paid poll has completed yet.
C21_RowShapes ==
    /\ \A i \in DOMAIN txs :
          /\ txs[i].type = "sent"
                 => txs[i].status = "completed" /\ txs[i].transaction_id = NULL
          /\ txs[i].status = "pending"
                 => txs[i].type = "received" /\ txs[i].transaction_id # NULL
    /\ \A u \in Users :
          BalanceData(txs, u).pendingTransactions
              = Cardinality(RowsOf(txs, u, "received", "pending"))

\* C21 witness: one account holds a withdrawal, a charge completed by a poll
\* and a charge still pending
C21_Witness ==
    \E u \in Users :
        /\ RowsOf(txs, u, "sent", "completed") # {}
        /\ RowsOf(txs, u, "received", "completed") # {}
        /\ RowsOf(txs, u, "received", "pending") # {}

====
